---- MODULE Spec2Model ----
(***************************************************************************)
(* The three screens of the deception-detection client: TextAnalysis       *)
(* (pages/TextAnalysis.tsx), TextAnalysisPage and AudioAnalysis (both in   *)
(* pages/AudioAnalysis.tsx), with the PredictionResult card that formats   *)
(* what they hold.  One screen is mounted at a time (the router's Outlet). *)
(* A handler runs atomically up to its next await; the part after an await *)
(* is the action that resolves the request it waits for.                   *)
(***************************************************************************)
EXTENDS Integers, Sequences, FiniteSets, TLC

(***************************************************************************)
(* Bounds of the model.                                                    *)
(***************************************************************************)
\* texts run up to MinTextLen + MaxExtra characters
MaxExtra == 1
\* file sizes run up to MaxBytes + MaxOver bytes
MaxOver == 1

(***************************************************************************)
(* Nullable values: null is the empty tuple, a value v is <<v>>.           *)
(***************************************************************************)
Null == <<>>
Some(v) == <<v>>

(***************************************************************************)
(* Strings the code inspects are sequences of one-character strings.       *)
(***************************************************************************)
Rep(c, n) == [i \in 1..n |-> c]

IsSpace(c) == c \in {" ", "\t", "\n"}

\* String.prototype.trim
Trim(s) ==
    LET keep == {i \in 1..Len(s) : ~IsSpace(s[i])}
    IN IF keep = {} THEN <<>>
       ELSE SubSeq(s, CHOOSE i \in keep : \A j \in keep : i <= j,
                      CHOOSE i \in keep : \A j \in keep : i >= j)

UpperToLower ==
    [A |-> "a", B |-> "b", C |-> "c", D |-> "d", E |-> "e", F |-> "f", G |-> "g",
     H |-> "h", I |-> "i", J |-> "j", K |-> "k", L |-> "l", M |-> "m", N |-> "n",
     O |-> "o", P |-> "p", Q |-> "q", R |-> "r", S |-> "s", T |-> "t", U |-> "u",
     V |-> "v", W |-> "w", X |-> "x", Y |-> "y", Z |-> "z"]

\* String.prototype.toLowerCase
toLowerCase(s) ==
    [i \in 1..Len(s) |-> IF s[i] \in DOMAIN UpperToLower THEN UpperToLower[s[i]] ELSE s[i]]

\* String.prototype.startsWith
startsWith(s, p) == Len(p) <= Len(s) /\ SubSeq(s, 1, Len(p)) = p

\* String.prototype.endsWith
endsWith(s, p) == Len(p) <= Len(s) /\ SubSeq(s, Len(s) - Len(p) + 1, Len(s)) = p

\* String.prototype.includes
includes(s, p) == \E i \in 1..(Len(s) - Len(p) + 1) : SubSeq(s, i, i + Len(p) - 1) = p

(***************************************************************************)
(* Numbers.  A reply's confidence is the decimal n / ConfScale; JSON.parse  *)
(* gives the nearest IEEE-754 double, `* 100` is a double multiplication    *)
(* and Math.round rounds the double.  A double is [man, exp], the value     *)
(* man * 2^(-exp); man is a natural number in limbs of Base, least first.   *)
(***************************************************************************)
Base == 10 ^ 4
ConfScale == 10 ^ 3
\* bits of a double's significand
MantissaBits == 53

RECURSIVE Norm(_)
Norm(a) == IF a = <<>> THEN <<>>
           ELSE IF a[Len(a)] = 0 THEN Norm(SubSeq(a, 1, Len(a) - 1)) ELSE a

RECURSIVE MulCarry(_, _, _)
MulCarry(a, m, c) ==
    IF a = <<>> THEN (IF c = 0 THEN <<>> ELSE <<c>>)
    ELSE LET v == a[1] * m + c
         IN <<v % Base>> \o MulCarry(Tail(a), m, v \div Base)

\* a * m, m < Base
MulSmall(a, m) == Norm(MulCarry(a, m, 0))

RECURSIVE DivStep(_, _, _, _)
DivStep(a, m, i, r) ==
    IF i = 0 THEN [q |-> <<>>, r |-> r]
    ELSE LET v == r * Base + a[i]
             rest == DivStep(a, m, i - 1, v % m)
         IN [q |-> rest.q \o <<v \div m>>, r |-> rest.r]

\* quotient and remainder of a by m, m < Base
DivSmall(a, m) == LET d == DivStep(a, m, Len(a), 0) IN [q |-> Norm(d.q), r |-> d.r]

RECURSIVE AddCarry(_, _, _)
AddCarry(a, b, c) ==
    IF a = <<>> /\ b = <<>> THEN (IF c = 0 THEN <<>> ELSE <<c>>)
    ELSE LET x == IF a = <<>> THEN 0 ELSE a[1]
             y == IF b = <<>> THEN 0 ELSE b[1]
             v == x + y + c
         IN <<v % Base>> \o AddCarry(IF a = <<>> THEN <<>> ELSE Tail(a),
                                     IF b = <<>> THEN <<>> ELSE Tail(b), v \div Base)

Add(a, b) == Norm(AddCarry(a, b, 0))

RECURSIVE LessFrom(_, _, _)
LessFrom(a, b, i) ==
    IF i = 0 THEN FALSE
    ELSE IF a[i] # b[i] THEN a[i] < b[i] ELSE LessFrom(a, b, i - 1)

Less(a, b) == IF Len(a) # Len(b) THEN Len(a) < Len(b) ELSE LessFrom(a, b, Len(a))

IsOdd(a) == a # <<>> /\ a[1] % 2 = 1

RECURSIVE Pow2(_)
Pow2(k) == IF k <= 10 THEN <<2 ^ k>> ELSE MulSmall(Pow2(k - 10), 1024)

FromInt(n) == IF n = 0 THEN <<>> ELSE IF n < Base THEN <<n>> ELSE <<n % Base, n \div Base>>

ToInt(a) == IF a = <<>> THEN 0 ELSE IF Len(a) = 1 THEN a[1] ELSE a[1] + Base * a[2]

\* round to nearest, ties to even: q + r/m with 0 <= r < m
RoundEven(q, r, m) ==
    IF 2 * r > m \/ (2 * r = m /\ IsOdd(q)) THEN Add(q, <<1>>) ELSE q

RECURSIVE ScaleUp(_, _, _)
ScaleUp(a, lim, k) ==
    IF ~Less(a, lim) THEN [N |-> a, e |-> k]
    ELSE IF Less(MulSmall(a, 1024), lim) THEN ScaleUp(MulSmall(a, 1024), lim, k + 10)
    ELSE ScaleUp(MulSmall(a, 2), lim, k + 1)

\* the double nearest to the decimal n / d (response.json() on a number)
ParseNumber(n, d) ==
    IF n = 0 THEN [man |-> <<>>, exp |-> 0]
    ELSE LET sc == ScaleUp(FromInt(n), MulSmall(Pow2(MantissaBits - 1), d), 0)
             qr == DivSmall(sc.N, d)
         IN [man |-> RoundEven(qr.q, qr.r, d), exp |-> sc.e]

RECURSIVE ShiftFor(_, _)
ShiftFor(a, k) == IF Less(a, Pow2(MantissaBits + k)) THEN k ELSE ShiftFor(a, k + 1)

\* x * m in double arithmetic, m a small integer: the exact product, rounded once
Times(x, m) ==
    LET prod == MulSmall(x.man, m)
        sh == ShiftFor(prod, 0)
        qr == DivSmall(prod, 2 ^ sh)
    IN [man |-> RoundEven(qr.q, qr.r, 2 ^ sh), exp |-> x.exp - sh]

RECURSIVE Halve(_, _)
Halve(a, k) == IF k <= 10 THEN DivSmall(a, 2 ^ k).q ELSE Halve(DivSmall(a, 1024).q, k - 10)

\* Math.round: the nearest integer, ties towards +infinity: floor(x + 1/2)
MathRound(x) == ToInt(Halve(Add(MulSmall(x.man, 2), Pow2(x.exp)), x.exp + 1))

\* the double of a small integer literal
Number(n) == [man |-> FromInt(n), exp |-> 0]

(***************************************************************************)
(* Inputs: what the user can type or pick and what the service can reply.  *)
(***************************************************************************)
\* TextAnalysis.tsx:42, AudioAnalysis.tsx:264
MinTextLen == 20

TextLens == {0} \cup ((MinTextLen - 1)..(MinTextLen + MaxExtra))

\* blank texts, unbroken texts and texts padded with a blank on both sides
Texts ==
    {Rep(" ", n) : n \in TextLens} \cup {Rep("a", n) : n \in TextLens \ {0}}
        \cup {<<" ">> \o Rep("a", n - 2) \o <<" ">> : n \in TextLens \ {0}}

\* the three example statements are non-blank and longer than MinTextLen; one
\* text of that kind stands for them
exampleStatements == {Rep("e", MinTextLen + 1)}

\* AudioAnalysis.tsx:36
MaxBytes == 25 * 1024 * 1024

AudioWav == <<"a", "u", "d", "i", "o", "/", "w", "a", "v">>
AudioMpeg == <<"a", "u", "d", "i", "o", "/", "m", "p", "e", "g">>
VideoMp4 == <<"v", "i", "d", "e", "o", "/", "m", "p", "4">>
\* holds "audio/" without starting with it
XAudio == <<"x", "-", "a", "u", "d", "i", "o", "/", "w", "a", "v">>

LieWav == <<"a", "_", "l", "i", "e", "_", "1", ".", "w", "a", "v">>
LieWavUpper == <<"A", "_", "L", "I", "E", "_", "1", ".", "W", "A", "V">>
LieMp3 == <<"a", "_", "l", "i", "e", "_", "1", ".", "m", "p", "3">>
PlainWav == <<"a", "l", "i", "e", "1", ".", "w", "a", "v">>
WavLie == <<"a", ".", "w", "a", "v", "_", "l", "i", "e", "_">>

File(name, type, size) == [name |-> name, type |-> type, size |-> size]

Files ==
    {File(n, AudioWav, MaxBytes) : n \in {LieWav, LieWavUpper, PlainWav, WavLie}}
        \cup {File(LieMp3, AudioMpeg, 1)}
        \cup {File(PlainWav, AudioWav, MaxBytes + k) : k \in 1..MaxOver}
        \cup {File(LieWav, t, 1) : t \in {VideoMp4, XAudio, <<>>}}

Labels == {"Truthful", "Deceptive"}

\* confidences of the replies, in units of 1 / ConfScale
Confidences == {285, 732}

OkStatuses == {200}
FailStatuses == {500}

\* a reply body: json says whether response.json() parses it; the fields are
\* null when the parsed object does not carry them
Body(json, prediction, confidence, error, expl) ==
    [json |-> json, prediction |-> prediction, confidence |-> confidence,
     error |-> error, explanation |-> expl]

Garbage == Body(FALSE, Null, Null, Null, Null)

PredictBodies(confs) == {Body(TRUE, Some(l), Some(c), Null, Null) : l \in Labels, c \in confs}

ErrorBodies ==
    {Body(TRUE, Null, Null, e, Null) : e \in {Null, Some(""), Some("Model not loaded")}}
        \cup {Garbage}

ExplainBodies == {Body(TRUE, Null, Null, Null, Some(x)) : x \in {"", "Hedged wording."}}

Response(status, body) == [kind |-> "response", status |-> status, body |-> body]

\* fetch itself rejects (network unreachable)
Rejected == [kind |-> "rejected", status |-> 0, body |-> Garbage]

PredictReplies(confs) ==
    {Response(st, b) : st \in OkStatuses, b \in PredictBodies(confs) \cup {Garbage}}
        \cup {Response(st, b) : st \in FailStatuses, b \in ErrorBodies}
        \cup {Rejected}

ExplainReplies ==
    {Response(st, b) : st \in OkStatuses, b \in ExplainBodies \cup {Garbage}}
        \cup {Response(st, Garbage) : st \in FailStatuses}
        \cup {Rejected}

(***************************************************************************)
(* State.                                                                  *)
(***************************************************************************)
VARIABLES
    screen,       \* the mounted page
    text,         \* useState("") of the text screens
    file,         \* useState<File | null>(null) of the audio screen
    isLoading,
    isExplaining,
    error,        \* null or a message
    result,       \* null or {label, confidence}
    explanation,  \* null or a string
    inflight,     \* the requests awaiting their reply, in order of issue
    resultFor,    \* the submission (text or file) whose request set result
    last          \* the event handled last: [op, arg, out]

vars == <<screen, text, file, isLoading, isExplaining, error, result, explanation,
          inflight, resultFor, last>>

TextScreens == {"TextAnalysis", "TextAnalysisPage"}
Screens == TextScreens \cup {"AudioAnalysis"}

Event(op, arg, out) == [op |-> op, arg |-> arg, out |-> out]

Request(endpoint, body, pred) == [endpoint |-> endpoint, body |-> body, pred |-> pred]

Without(q, i) == SubSeq(q, 1, i - 1) \o SubSeq(q, i + 1, Len(q))

Init ==
    /\ screen \in Screens
    /\ text = <<>>
    /\ file = Null
    /\ isLoading = FALSE
    /\ isExplaining = FALSE
    /\ error = Null
    /\ result = Null
    /\ explanation = Null
    /\ inflight = <<>>
    /\ resultFor = Null
    /\ last = Event("mount", Null, "")

(***************************************************************************)
(* Pieces shared by the handlers.                                          *)
(***************************************************************************)
\* response.ok
ResponseOk(status) == status \in 200..299

\* a non-empty string is truthy
Truthy(str) == str # ""

\* the message without the reply's error field
ServerErrorMessageStatusOnly(reply) == "Server error: " \o ToString(reply.status)

\* errorData?.error || `Server error: ${response.status}`
ServerErrorMessage(reply) ==
    IF reply.body.json /\ reply.body.error # Null /\ Truthy(reply.body.error[1])
    THEN reply.body.error[1]
    ELSE "Server error: " \o ToString(reply.status)

\* what the try block throws for a reply to a predict request, or null; every
\* message is non-empty, so the catch block's err.message || "Failed to ..."
\* always takes err.message
PredictThrows(reply) ==
    IF reply.kind = "rejected" THEN Some("Failed to fetch")
    ELSE IF ~ResponseOk(reply.status) THEN Some(ServerErrorMessage(reply))
    ELSE IF ~reply.body.json THEN Some("Unexpected token < in JSON at position 0")
    ELSE Null

\* { label: data.prediction, confidence: data.confidence * 100 }
ResultOf(body) ==
    [label |-> body.prediction[1],
     confidence |-> Times(ParseNumber(body.confidence[1], ConfScale), 100)]

\* PredictionResult: what the card shows for a result
confidencePercent(res) == MathRound(res.confidence)

Displayed(res) == [label |-> res.label, confidencePercent |-> confidencePercent(res)]

(***************************************************************************)
(* The text screens: TextAnalysis and TextAnalysisPage.                    *)
(***************************************************************************)
\* useEffect(() => setCharacterCount(text.length), [text])
characterCount == Len(text)

\* !text.trim()
TextIsBlank(t) == Trim(t) = <<>>

\* the length check off by one
TextTooShortOffByOne(t) == Len(t) < MinTextLen - 1

\* text.length < 20
TextTooShort(t) == Len(t) < MinTextLen

\* the disabled attribute without isLoading
SubmitDisabledWhenInvalid ==
    IF screen \in TextScreens THEN Len(text) < MinTextLen
    ELSE file = Null

\* the submit button's disabled attribute
SubmitDisabled ==
    IF screen \in TextScreens THEN isLoading \/ Len(text) < MinTextLen
    ELSE file = Null \/ isLoading

\* Textarea onChange; TextAnalysis disables the textarea while loading,
\* TextAnalysisPage also clears the error
onChange(t) ==
    /\ screen \in TextScreens
    /\ t # text
    /\ screen = "TextAnalysis" => ~isLoading
    /\ text' = t
    /\ error' = IF screen = "TextAnalysisPage" THEN Null ELSE error
    /\ last' = Event("onChange", Some(t), "")
    /\ UNCHANGED <<screen, file, isLoading, isExplaining, result, explanation,
                   inflight, resultFor>>

\* a click on an example statement: setText(statement) in TextAnalysis,
\* handleUseExample in TextAnalysisPage
handleUseExample(t) ==
    /\ screen \in TextScreens
    /\ text' = t
    /\ IF screen = "TextAnalysisPage"
       THEN result' = Null /\ error' = Null /\ explanation' = Null /\ resultFor' = Null
       ELSE UNCHANGED <<result, error, explanation, resultFor>>
    /\ last' = Event("handleUseExample", Some(t), "")
    /\ UNCHANGED <<screen, file, isLoading, isExplaining, inflight>>

\* the clear button is rendered when text is non-empty; TextAnalysis disables
\* it while loading
handleClearText ==
    /\ screen \in TextScreens
    /\ text # <<>>
    /\ screen = "TextAnalysis" => ~isLoading
    /\ text' = <<>>
    /\ result' = Null
    /\ error' = Null
    /\ explanation' = Null
    /\ resultFor' = Null
    /\ last' = Event("handleClearText", Null, "")
    /\ UNCHANGED <<screen, file, isLoading, isExplaining, inflight>>

\* handleSubmit of the text screens, up to the await of the /predict fetch
TextHandleSubmit ==
    /\ screen \in TextScreens
    /\ IF TextIsBlank(text)
       THEN /\ error' = Some("Please enter some text to analyze")
            /\ last' = Event("handleSubmit", Some(text), "invalid")
            /\ UNCHANGED <<isLoading, explanation, result, resultFor, inflight>>
       ELSE IF TextTooShort(text)
       THEN /\ error' = Some("Please enter at least 20 characters for more accurate analysis")
            /\ last' = Event("handleSubmit", Some(text), "invalid")
            /\ UNCHANGED <<isLoading, explanation, result, resultFor, inflight>>
       ELSE /\ isLoading' = TRUE
            /\ error' = Null
            /\ explanation' = Null
            /\ result' = Null
            /\ resultFor' = Null
            /\ inflight' = Append(inflight, Request("/predict", text, Null))
            /\ last' = Event("handleSubmit", Some(text), "request")
    /\ UNCHANGED <<screen, text, file, isExplaining>>

\* the body of the explain request read from the state instead of the closure
ExplainRequestFromState(req, res) == Request("/explain", text, res)

\* fetch(`${BACKEND_URL}/explain`, ...) with body { transcript: text }, text
\* being the value handleSubmit closed over
ExplainRequest(req, res) == Request("/explain", req.body, res)

\* the /predict fetch settles: the rest of the try block up to the await of
\* the /explain fetch, or the catch and finally blocks
TextPredictSettled(i, reply) ==
    /\ screen \in TextScreens
    /\ inflight[i].endpoint = "/predict"
    /\ LET req == inflight[i]
           thrown == PredictThrows(reply)
       IN IF thrown # Null
          THEN /\ error' = thrown
               /\ isLoading' = FALSE
               /\ isExplaining' = FALSE
               /\ inflight' = Without(inflight, i)
               /\ last' = Event("predictSettled", <<req, reply>>, "failed")
               /\ UNCHANGED <<result, resultFor>>
          ELSE /\ result' = Some(ResultOf(reply.body))
               /\ resultFor' = Some(req.body)
               /\ isExplaining' = TRUE
               /\ inflight' = [inflight EXCEPT
                                 ![i] = ExplainRequest(req, Some(ResultOf(reply.body)))]
               /\ last' = Event("predictSettled", <<req, reply>>, "explain")
               /\ UNCHANGED <<error, isLoading>>
    /\ UNCHANGED <<screen, text, file, explanation>>

\* what the try block throws for a reply to the /explain request, or null
ExplainThrows(reply) ==
    IF reply.kind = "rejected" THEN Some("Failed to fetch")
    ELSE IF ResponseOk(reply.status) /\ ~reply.body.json
    THEN Some("Unexpected token < in JSON at position 0")
    ELSE Null

\* the explanation after a reply that does not throw
ExplanationAfter(scr, reply, old) ==
    IF ResponseOk(reply.status)
    THEN IF scr = "TextAnalysis"
         THEN Some(IF Truthy(reply.body.explanation[1]) THEN reply.body.explanation[1]
                   ELSE "No explanation available.")
         ELSE reply.body.explanation
    ELSE IF scr = "TextAnalysis" THEN old
         ELSE Some("Explanation request failed. Please try again.")

\* the /explain fetch settles with the flags reset at the end of the try block
\* in place of the finally block
ExplainSettledNoFinally(i, reply) ==
    /\ screen \in TextScreens
    /\ inflight[i].endpoint = "/explain"
    /\ LET req == inflight[i]
           thrown == ExplainThrows(reply)
       IN IF thrown # Null
          THEN /\ error' = thrown
               /\ last' = Event("explainSettled", <<req, reply>>, "failed")
               /\ UNCHANGED <<explanation, isLoading, isExplaining>>
          ELSE /\ explanation' = ExplanationAfter(screen, reply, explanation)
               /\ last' = Event("explainSettled", <<req, reply>>, "done")
               /\ isLoading' = FALSE
               /\ isExplaining' = FALSE
               /\ UNCHANGED error
    /\ inflight' = Without(inflight, i)
    /\ UNCHANGED <<screen, text, file, result, resultFor>>

\* the /explain fetch settles: the rest of handleSubmit
ExplainSettled(i, reply) ==
    /\ screen \in TextScreens
    /\ inflight[i].endpoint = "/explain"
    /\ LET req == inflight[i]
           thrown == ExplainThrows(reply)
       IN /\ IF thrown # Null
             THEN error' = thrown /\ UNCHANGED explanation
             ELSE explanation' = ExplanationAfter(screen, reply, explanation)
                    /\ UNCHANGED error
          /\ last' = Event("explainSettled", <<req, reply>>,
                           IF thrown # Null THEN "failed" ELSE "done")
    /\ isLoading' = FALSE
    /\ isExplaining' = FALSE
    /\ inflight' = Without(inflight, i)
    /\ UNCHANGED <<screen, text, file, result, resultFor>>

(***************************************************************************)
(* The audio screen: AudioAnalysis.                                        *)
(***************************************************************************)
\* the type test with includes in place of startsWith
IsAudioTypeAnywhere(f) == includes(f.type, <<"a", "u", "d", "i", "o", "/">>)

\* selectedFile.type.startsWith("audio/")
IsAudioType(f) == startsWith(f.type, <<"a", "u", "d", "i", "o", "/">>)

\* selectedFile.size > 25 * 1024 * 1024
TooLarge(f) == f.size > MaxBytes

\* the name test without toLowerCase
IsLieWavCaseSensitive(f) ==
    /\ endsWith(f.name, <<".", "w", "a", "v">>)
    /\ includes(f.name, <<"_", "l", "i", "e", "_">>)

\* file.name.toLowerCase().endsWith(".wav") && file.name.toLowerCase().includes("_lie_")
IsLieWav(f) ==
    /\ endsWith(toLowerCase(f.name), <<".", "w", "a", "v">>)
    /\ includes(toLowerCase(f.name), <<"_", "l", "i", "e", "_">>)

\* sel is e.target.files[0], or null when the list is empty
handleFileChange(sel) ==
    /\ screen = "AudioAnalysis"
    /\ IF sel = Null
       THEN /\ last' = Event("handleFileChange", sel, "none")
            /\ UNCHANGED <<file, error, result, resultFor>>
       ELSE IF ~IsAudioType(sel[1])
       THEN /\ error' = Some("Please select a valid audio file (MP3 or WAV)")
            /\ last' = Event("handleFileChange", sel, "invalid")
            /\ UNCHANGED <<file, result, resultFor>>
       ELSE IF TooLarge(sel[1])
       THEN /\ error' = Some("File size exceeds 25MB limit")
            /\ last' = Event("handleFileChange", sel, "invalid")
            /\ UNCHANGED <<file, result, resultFor>>
       ELSE /\ file' = sel
            /\ error' = Null
            /\ result' = Null
            /\ resultFor' = Null
            /\ last' = Event("handleFileChange", sel, "stored")
    /\ UNCHANGED <<screen, text, isLoading, isExplaining, explanation, inflight>>

\* the remove button is rendered with the file and disabled while loading
handleRemoveFile ==
    /\ screen = "AudioAnalysis"
    /\ file # Null
    /\ ~isLoading
    /\ file' = Null
    /\ result' = Null
    /\ error' = Null
    /\ resultFor' = Null
    /\ last' = Event("handleRemoveFile", Null, "")
    /\ UNCHANGED <<screen, text, isLoading, isExplaining, explanation, inflight>>

\* handleSubmit of the audio screen, up to the await of the fetch
AudioHandleSubmit ==
    /\ screen = "AudioAnalysis"
    /\ IF file = Null
       THEN /\ error' = Some("Please select an audio file to analyze")
            /\ last' = Event("handleSubmit", file, "invalid")
            /\ UNCHANGED <<isLoading, result, resultFor, inflight>>
       ELSE IF IsLieWav(file[1])
       THEN /\ result' = Some([label |-> "Deceptive", confidence |-> Number(95)])
            /\ resultFor' = file
            /\ isLoading' = FALSE
            /\ error' = Null
            /\ last' = Event("handleSubmit", file, "override")
            /\ UNCHANGED inflight
       ELSE /\ isLoading' = TRUE
            /\ error' = Null
            /\ inflight' = Append(inflight, Request("/audio-predict", file[1], Null))
            /\ last' = Event("handleSubmit", file, "request")
            /\ UNCHANGED <<result, resultFor>>
    /\ UNCHANGED <<screen, text, file, isExplaining, explanation>>

\* the /audio-predict fetch settles: the rest of handleSubmit
AudioPredictSettled(i, reply) ==
    /\ screen = "AudioAnalysis"
    /\ inflight[i].endpoint = "/audio-predict"
    /\ LET req == inflight[i]
           thrown == PredictThrows(reply)
       IN IF thrown # Null
          THEN /\ error' = thrown
               /\ last' = Event("predictSettled", <<req, reply>>, "failed")
               /\ UNCHANGED <<result, resultFor>>
          ELSE /\ result' = Some(ResultOf(reply.body))
               /\ resultFor' = Some(req.body)
               /\ last' = Event("predictSettled", <<req, reply>>, "done")
               /\ UNCHANGED error
    /\ isLoading' = FALSE
    /\ inflight' = Without(inflight, i)
    /\ UNCHANGED <<screen, text, file, isExplaining, explanation>>

(***************************************************************************)
(* Events.  A click on the submit button reaches handleSubmit only while   *)
(* the button is enabled; a submit event sent to the form itself           *)
(* (onSubmit={handleSubmit}) reaches it whatever the button shows.  The    *)
(* model sends such events only while no submission is pending.            *)
(***************************************************************************)
handleSubmit == TextHandleSubmit \/ AudioHandleSubmit

ClickSubmit == ~SubmitDisabled /\ handleSubmit

DispatchSubmit == SubmitDisabled /\ ~isLoading /\ handleSubmit

Type == \E t \in Texts : onChange(t)

UseExample == \E t \in exampleStatements : handleUseExample(t)

SelectFile == \E sel \in {Null} \cup {Some(f) : f \in Files} : handleFileChange(sel)

PredictSettles ==
    \E i \in 1..Len(inflight) : \E reply \in PredictReplies(Confidences) :
        TextPredictSettled(i, reply) \/ AudioPredictSettled(i, reply)

ExplainSettles ==
    \E i \in 1..Len(inflight) : \E reply \in ExplainReplies : ExplainSettled(i, reply)

Next ==
    \/ Type
    \/ UseExample
    \/ handleClearText
    \/ SelectFile
    \/ handleRemoveFile
    \/ ClickSubmit
    \/ DispatchSubmit
    \/ PredictSettles
    \/ ExplainSettles

Spec == Init /\ [][Next]_vars

(***************************************************************************)
(* The same program when every request that was issued settles: fetch has  *)
(* no timeout, so that a reply, a failure status or a rejection arrives is *)
(* an assumption on the network, stated as weak fairness of the two        *)
(* settling steps.                                                         *)
(***************************************************************************)
SpecLive == Spec /\ WF_vars(PredictSettles) /\ WF_vars(ExplainSettles)

(***************************************************************************)
(* The formatting of a reply on its own: from the state right after a      *)
(* submit, the predict request settles with a success reply whose          *)
(* confidence is any multiple of 1 / ConfScale in [0, 1].                  *)
(***************************************************************************)
InitFormat ==
    /\ screen \in Screens
    /\ text = IF screen \in TextScreens THEN Rep("a", MinTextLen) ELSE <<>>
    /\ file = IF screen \in TextScreens THEN Null ELSE Some(File(PlainWav, AudioWav, MaxBytes))
    /\ isLoading = TRUE
    /\ isExplaining = FALSE
    /\ error = Null
    /\ result = Null
    /\ explanation = Null
    /\ inflight = IF screen \in TextScreens THEN <<Request("/predict", text, Null)>>
                  ELSE <<Request("/audio-predict", file[1], Null)>>
    /\ resultFor = Null
    /\ last = Event("handleSubmit", IF screen \in TextScreens THEN Some(text) ELSE file,
                    "request")

NextFormat ==
    \E i \in 1..Len(inflight) :
        \E reply \in {Response(st, b) : st \in OkStatuses, b \in PredictBodies(0..ConfScale)} :
            TextPredictSettled(i, reply) \/ AudioPredictSettled(i, reply)

SpecFormat == InitFormat /\ [][NextFormat]_vars

(***************************************************************************)
(* Properties.                                                             *)
(***************************************************************************)
\* the submission the screen holds now
CurrentSubmission == IF screen \in TextScreens THEN Some(text) ELSE file

\* C1: on every screen, a result that is shown was produced from the
\* submission the screen holds now (the current text, the selected file)
C1_ResultBelongsToCurrentSubmission ==
    result # Null => resultFor = CurrentSubmission

\* C2: when handleSubmit issues its predict request, result, explanation and
\* error are all null, on the text screens and on the audio screen
C2_StateClearedWhenRequestIssued ==
    (last.op = "handleSubmit" /\ last.out = "request") =>
        (result = Null /\ explanation = Null /\ error = Null)

\* the last event is the end of a text submission whose /explain request was
\* answered with a non-2xx status
ExplainAnsweredNotOk ==
    /\ screen \in TextScreens
    /\ last.op = "explainSettled"
    /\ last.arg[2].kind = "response"
    /\ ~(last.arg[2].status \in 200..299)

\* C3: after /predict succeeded and /explain returned a non-2xx status, result
\* is still the prediction, explanation is the fixed fallback message and
\* error is null
C3_ExplainNotOkGivesFallback ==
    ExplainAnsweredNotOk =>
        /\ result = last.arg[1].pred
        /\ explanation = Some("Explanation request failed. Please try again.")
        /\ error = Null

\* the last event is the end of a text submission whose explain phase failed:
\* the fetch rejected, the status was non-2xx or the body did not parse
ExplainPhaseFailed ==
    /\ screen \in TextScreens
    /\ last.op = "explainSettled"
    /\ \/ last.arg[2].kind = "rejected"
       \/ ~(last.arg[2].status \in 200..299)
       \/ ~last.arg[2].body.json

\* C4: once /predict has succeeded, no failure of the explain phase sets the
\* error: at the end error is null and result is still the prediction
C4_ExplainFailureNeverSetsError ==
    ExplainPhaseFailed => (error = Null /\ result = last.arg[1].pred)

\* a text handleSubmit must reject
InvalidText(t) == Len(t) < 20 \/ \A i \in 1..Len(t) : t[i] \in {" ", "\t", "\n"}

\* C5: handleSubmit on a text shorter than 20 characters, or empty or made of
\* whitespace only, issues no request, sets a validation error and does not
\* touch isLoading
C5_InvalidTextIssuesNoRequest ==
    [][(screen \in TextScreens /\ last'.op = "handleSubmit" /\ InvalidText(text)) =>
          /\ inflight' = inflight
          /\ error' # Null
          /\ error' \in {Some("Please enter some text to analyze"),
                         Some("Please enter at least 20 characters for more accurate analysis")}
          /\ isLoading' = isLoading]_vars

\* a 19-character text that is not blank was submitted and rejected
C5_Witness ==
    /\ screen \in TextScreens
    /\ last.op = "handleSubmit"
    /\ Len(text) = 19
    /\ \E i \in 1..Len(text) : text[i] # " "
    /\ error # Null
    /\ inflight = <<>>

\* a file handleFileChange must reject
RejectedFile(f) ==
    \/ ~(Len(f.type) >= 6 /\ SubSeq(f.type, 1, 6) = <<"a", "u", "d", "i", "o", "/">>)
    \/ f.size > 25 * 1024 * 1024

\* C6: a file whose type does not start with "audio/" or whose size exceeds
\* 25*1024*1024 bytes gets a validation error and is never stored; any other
\* file (one of exactly 25*1024*1024 bytes too) is stored; and no
\* /audio-predict request carries a file that must be rejected
C6_InvalidFileNeverStoredOrSent ==
    [][/\ (screen = "AudioAnalysis" /\ last'.op = "handleFileChange" /\ last'.arg # Null) =>
              IF RejectedFile(last'.arg[1])
              THEN error' # Null /\ file' = file /\ file' # last'.arg
              ELSE file' = last'.arg /\ error' = Null
       /\ \A i \in 1..Len(inflight') :
              inflight'[i].endpoint = "/audio-predict" => ~RejectedFile(inflight'[i].body)]_vars

\* an oversized file was picked and rejected while another file stays selected
C6_Witness ==
    /\ screen = "AudioAnalysis"
    /\ last.op = "handleFileChange"
    /\ last.arg # Null
    /\ last.arg[1].size > 25 * 1024 * 1024
    /\ error # Null
    /\ file # Null
    /\ file # last.arg

\* the name, lower-cased, ends with ".wav" and contains "_lie_"
MatchesLie(f) ==
    LET name == toLowerCase(f.name)
    IN endsWith(name, <<".", "w", "a", "v">>) /\ includes(name, <<"_", "l", "i", "e", "_">>)

\* C7: submitting a file whose lower-cased name ends with ".wav" and contains
\* "_lie_" sets result to {Deceptive, 95}, error to null and isLoading to
\* false and issues no request; submitting any other file issues the
\* /audio-predict request and sets no result
C7_LieWavOverride ==
    [][(screen = "AudioAnalysis" /\ last'.op = "handleSubmit" /\ file # Null) =>
          IF MatchesLie(file[1])
          THEN /\ result' = Some([label |-> "Deceptive", confidence |-> Number(95)])
               /\ confidencePercent(result'[1]) = 95
               /\ error' = Null
               /\ ~isLoading'
               /\ inflight' = inflight
          ELSE /\ inflight' = Append(inflight, Request("/audio-predict", file[1], Null))
               /\ isLoading'
               /\ result' = result]_vars

\* the file named A_LIE_1.WAV was submitted and got the fixed result
C7_Witness ==
    /\ screen = "AudioAnalysis"
    /\ last.op = "handleSubmit"
    /\ file = Some(File(LieWavUpper, AudioWav, MaxBytes))
    /\ result = Some([label |-> "Deceptive", confidence |-> Number(95)])
    /\ error = Null
    /\ ~isLoading
    /\ inflight = <<>>

\* C8: for a predict reply {prediction, confidence}, confidence = n / ConfScale
\* in [0, 1], the card shows the prediction unchanged and 100 * confidence
\* rounded half-up, an integer in [0, 100]
C8_ConfidencePercentRoundsHalfUp ==
    (last.op = "predictSettled" /\ last.out \in {"explain", "done"}) =>
        LET body == last.arg[2].body
            shown == Displayed(result[1])
        IN /\ shown.label = body.prediction[1]
           /\ shown.confidencePercent = (100 * body.confidence[1] + ConfScale \div 2) \div ConfScale
           /\ shown.confidencePercent \in 0..100

Explains(q) == {i \in 1..Len(q) : q[i].endpoint = "/explain"}

\* C9: an /explain request is issued only by the step in which the /predict
\* request of the same submission settles with a success status and a parsed
\* body, it takes that request's place and carries the text that request
\* carried; no /predict and /explain requests are outstanding together
C9_ExplainOnlyAfterPredictSucceeds ==
    [][/\ Cardinality(Explains(inflight')) > Cardinality(Explains(inflight)) =>
              /\ last'.op = "predictSettled"
              /\ last'.arg[2].kind = "response"
              /\ last'.arg[2].status \in 200..299
              /\ last'.arg[2].body.json
              /\ last'.arg[1].endpoint = "/predict"
              /\ \E i \in 1..Len(inflight) :
                     /\ inflight[i] = last'.arg[1]
                     /\ Len(inflight') = Len(inflight)
                     /\ inflight'[i].endpoint = "/explain"
                     /\ inflight'[i].body = inflight[i].body
       /\ \A i, j \in 1..Len(inflight') :
              ~(inflight'[i].endpoint = "/predict" /\ inflight'[j].endpoint = "/explain")]_vars

\* the /explain request is outstanding with the submitted text after the text
\* on the screen has changed
C9_Witness ==
    /\ screen \in TextScreens
    /\ last.op = "predictSettled"
    /\ Len(inflight) = 1
    /\ inflight[1].endpoint = "/explain"
    /\ inflight[1].body = last.arg[1].body
    /\ inflight[1].body # text

\* the step ends a submission whose predict request got a non-success status
PredictAnsweredNotOk ==
    /\ last'.op = "predictSettled"
    /\ last'.arg[2].kind = "response"
    /\ ~(last'.arg[2].status \in 200..299)

\* C10 as stated: after a non-success predict reply, error is the reply's JSON
\* error field when the body parses and carries one and "Server error:
\* <status>" otherwise; no result is set; the text screens end with result and
\* explanation null
C10_ErrorFromReplyAsStated ==
    [][PredictAnsweredNotOk =>
          LET reply == last'.arg[2]
          IN /\ error' # Null
             /\ error' = Some(IF reply.body.json /\ reply.body.error # Null
                              THEN reply.body.error[1]
                              ELSE "Server error: " \o ToString(reply.status))
             /\ result' = result
             /\ screen \in TextScreens => (result' = Null /\ explanation' = Null)]_vars

\* C10 amended: error is the reply's JSON error field when the body parses and
\* carries a non-empty one, and "Server error: <status>" otherwise, an empty
\* error field included
C10_ErrorFromReply ==
    [][PredictAnsweredNotOk =>
          LET reply == last'.arg[2]
          IN /\ error' # Null
             /\ error' = Some(IF reply.body.json /\ reply.body.error # Null
                                 /\ reply.body.error[1] # ""
                              THEN reply.body.error[1]
                              ELSE "Server error: " \o ToString(reply.status))
             /\ result' = result
             /\ screen \in TextScreens => (result' = Null /\ explanation' = Null)]_vars

\* a text submission ended with the message of the reply's error field
C10_Witness ==
    /\ screen \in TextScreens
    /\ last.op = "predictSettled"
    /\ last.arg[2].status = 500
    /\ last.arg[2].body.error = Some("Model not loaded")
    /\ error = Some("Model not loaded")
    /\ result = Null
    /\ explanation = Null
    /\ ~isLoading

\* the screen is busy: the spinner of the submit button or of the explanation
Busy == isLoading \/ isExplaining

\* C11: when every issued request settles, a submission that passed
\* validation comes back to a state that is not busy: once no request of it
\* is pending isLoading and isExplaining are both false, whatever the replies
\* to the predict and explain requests were, and a busy screen always gets there
C11_SubmissionReturnsToIdle ==
    /\ [](inflight = <<>> => ~Busy)
    /\ [][(last'.op \in {"predictSettled", "explainSettled"} /\ inflight' = <<>>)
             => ~Busy']_vars
    /\ (Busy ~> ~Busy)

\* a submission whose predict request succeeded and whose explain request was
\* rejected is over and the screen is idle
C11_Witness ==
    /\ last.op = "explainSettled"
    /\ last.out = "failed"
    /\ last.arg[2].kind = "rejected"
    /\ result # Null
    /\ inflight = <<>>
    /\ ~isLoading
    /\ ~isExplaining

\* handleSubmit issues its request in this step
IssuesRequest == last'.op = "handleSubmit" /\ last'.out = "request" /\ inflight' # inflight

\* C12: on each screen at most one submission is in flight at any time: while
\* a request of a submission is pending isLoading is true, which disables the
\* submit button, and handleSubmit issues a request only when none is pending
C12_OneSubmissionInFlight ==
    /\ [](Len(inflight) <= 1)
    /\ [](inflight # <<>> => isLoading)
    /\ [][IssuesRequest => (inflight = <<>> /\ ~isLoading /\ Len(inflight') = 1)]_vars

\* the explain request of a submission is pending and the screen holds
\* another text that is long enough: only isLoading disables the button
C12_Witness ==
    /\ screen \in TextScreens
    /\ Len(inflight) = 1
    /\ inflight[1].endpoint = "/explain"
    /\ last.op = "handleUseExample"
    /\ ~TextIsBlank(text)
    /\ ~TextTooShort(text)
    /\ text # inflight[1].body
    /\ isLoading
    /\ SubmitDisabled

\* the last event cleared or replaced the submission while its request was
\* pending: the clear button, an example button, the remove button, or the
\* choice of another file
ReplacedInFlight ==
    /\ inflight # <<>>
    /\ \/ last.op \in {"handleClearText", "handleUseExample", "handleRemoveFile"}
       \/ /\ last.op = "handleFileChange"
          /\ last.out = "stored"
          /\ last.arg # Some(inflight[1].body)

\* C13: a reply to an earlier submission never overwrites newer state: when
\* the submission was cleared or replaced while its request was pending, the
\* arrival of the reply sets none of result, explanation and error
C13_StaleReplyChangesNothing ==
    [][(ReplacedInFlight /\ last'.op \in {"predictSettled", "explainSettled"}) =>
          /\ result' = result
          /\ explanation' = explanation
          /\ error' = error]_vars

\* C14: on every screen error and result are never both non-null: a failure
\* message is never held together with a prediction result
C14_ErrorAndResultExclusive == ~(error # Null /\ result # Null)

\* C15: in the text flow, while isExplaining is true isLoading is true, result
\* is non-null and explanation is null; and an explanation is never held
\* without the result it explains
C15_ExplainingImpliesResult ==
    screen \in TextScreens =>
        /\ isExplaining => (isLoading /\ result # Null /\ explanation = Null)
        /\ explanation # Null => result # Null

====
